---- MODULE Spec2Model ----
(***************************************************************************)
(* EmissionExplorer (src/app.py): a Streamlit script.  Every user          *)
(* interaction reruns the script top to bottom: train_co2_model() is       *)
(* called (cached by st.cache_data), the sidebar widgets are read, and, if *)
(* the button was pressed, calculate_co2_footprint runs and its result is  *)
(* rendered, followed by the machine-learning block.                       *)
(*                                                                         *)
(* Numbers.  direct_distance is round(km, 2), so it is an integer number   *)
(* of 1/100 km.  The factor tables are decimal literals with one           *)
(* (distance_factors) and two (emission_factors) decimals, so every        *)
(* product is an exact integer number of 1/1000 km resp. 1/100000 kg, and  *)
(* each value of a comparison row, round(x, 2), is an integer number of    *)
(* hundredths.  round(x, 2) on a binary float is decided by the float's    *)
(* binary expansion when x is a decimal tie (0.05*1.3 rounds to 0.07,      *)
(* 0.35*1.3 rounds to 0.45): a tie goes either way.                        *)
(***************************************************************************)
EXTENDS Integers, Sequences, FiniteSets

VARIABLES
    cache,               \* st.cache_data entry of train_co2_model: NoCache or its return value
    trainings,           \* how often the body of train_co2_model has run in this process
    start_point,         \* st.text_input "Startpunkt"
    end_point,           \* st.text_input "Ziel"
    selected_transports, \* st.multiselect, in the order of selection
    travelers,           \* st.number_input "Anzahl der Reisenden"
    use_ml,              \* st.checkbox "Erweiterte CO2-Berechnung mit ML"
    widget_note,         \* what the number_input did with the last value typed into it
    geocode_calls,       \* geolocator.geocode calls of the last run with their answers, in order
    messages,            \* st.error / st.warning boxes of the last run, in order
    result,              \* return value of calculate_co2_footprint in the last run
    uncaught,            \* the last run ended in an exception no handler caught
    ml_args,             \* arguments of the last run's predict_co2_with_ml call
    input_data,          \* the frame that call handed to model.predict
    ml_output,           \* what the last run's machine-learning block showed
    training             \* a run of train_co2_model's body: its position and one of its samples

vars == <<cache, trainings, start_point, end_point, selected_transports, travelers, use_ml,
          widget_note, geocode_calls, messages, result, uncaught, ml_args, input_data,
          ml_output, training>>

(***************************************************************************)
(* Bounds of the exploration.                                              *)
(***************************************************************************)
MaxDirect == 4      \* the first MaxDirect of the explored geodesic answers
MaxTravelers == 2   \* traveler counts typed: -1 .. MaxTravelers
MaxSel == 2         \* at most this many modes selected at once

\* Python's None; st.cache_data before the first call.
None == [none |-> TRUE]
NotCalled == [called |-> FALSE]
NoCache == [cached |-> FALSE]

(***************************************************************************)
(* Python arithmetic.                                                      *)
(***************************************************************************)
\* round(num/den, 2-decimals) of an exact quotient, den # 0, in units of the
\* quotient; tie_up decides an exact tie.
PyRound(num, den, tie_up) ==
    LET n == IF den < 0 THEN -num ELSE num
        d == IF den < 0 THEN -den ELSE den
        q == n \div d
        r == n % d
    IN  IF 2 * r < d THEN q
        ELSE IF 2 * r > d THEN q + 1
        ELSE IF tie_up THEN q + 1 ELSE q

Abs(x) == IF x < 0 THEN -x ELSE x

\* Sequences without repetition of at most n elements of S.
SeqsNoDup(S, n) ==
    {s \in UNION {[1..k -> S] : k \in 0..n} :
        \A i, j \in DOMAIN s : i # j => s[i] # s[j]}

Range(s) == {s[i] : i \in DOMAIN s}

(***************************************************************************)
(* Sidebar (lines 138-180).                                                *)
(***************************************************************************)
transport_options == <<"Auto", "Flugzeug", "Zug", "Bus", "Motorrad">>

default_transports == <<"Auto", "Flugzeug", "Zug">>

\* st.text_input defaults (lines 142-143).
default_start == "Zuerich, Schweiz"
default_end == "Berlin, Deutschland"

\* The text inputs are free text; what matters to the script is whether the
\* geocoder knows the place.  The texts the user types into either:
Unresolvable == "Nirgendwo"
StartTexts == {default_start, Unresolvable}
EndTexts == {default_end, Unresolvable}

min_value == 1

\* The widget without min_value.
number_input_unbounded(old, typed) == {typed}

\* st.number_input(min_value=1): a typed value below min_value never becomes
\* the widget's value; the widget keeps its old value or sets min_value.
number_input(old, typed) ==
    IF typed >= min_value THEN {typed} ELSE {old, min_value}

(***************************************************************************)
(* Formula tables (lines 183-198, 221-227): factors times 100 resp. 10.    *)
(***************************************************************************)
emission_factors ==
    [t \in {"Auto", "Flugzeug", "Zug", "Bus", "Motorrad"} |->
        CASE t = "Auto" -> 17
          [] t = "Flugzeug" -> 24
          [] t = "Zug" -> 4
          [] t = "Bus" -> 7
          [] t = "Motorrad" -> 11]

distance_factors ==
    [t \in {"Auto", "Flugzeug", "Zug", "Bus", "Motorrad"} |->
        CASE t = "Auto" -> 12
          [] t = "Flugzeug" -> 10
          [] t = "Zug" -> 13
          [] t = "Bus" -> 13
          [] t = "Motorrad" -> 12]

(***************************************************************************)
(* External collaborators of calculate_co2_footprint (lines 203-218).      *)
(***************************************************************************)
Raised == [raised |-> TRUE]

Location(query) == [address |-> query]

\* geolocator.geocode(query): the service fails with an exception, or answers
\* with the place or with None.
geocode(query) ==
    {Raised, IF query # Unresolvable THEN Location(query) ELSE None}

\* (latitude, longitude) of a Location.
coords(location) == <<location.address, "latitude", "longitude">>

\* Distances in 1/100 km: 10 m, 30 m, 1.25 km (its products are decimal ties),
\* none, 100 km, 50 km, 2.5 km, 671.25 km, 1234.57 km.
explored_distances == <<1, 3, 125, 0, 10000, 5000, 250, 67125, 123457>>

Distances == {explored_distances[k] : k \in 1..MaxDirect}

\* round(geodesic(start_coords, end_coords).kilometers, 2), in 1/100 km: the
\* distance collaborator's answer.
geodesic(start_coords, end_coords) == Distances

(***************************************************************************)
(* calculate_co2_footprint (lines 201-255).                                *)
(***************************************************************************)
not_found_text == "Konnte einen oder beide Standorte nicht finden. Bitte ueberpruefe deine Eingaben."
failure_text == "Fehler bei der Berechnung"

error_box(text, e) == [box |-> "error", text |-> text, e |-> e]

\* The check with "and" for "or".
location_missing_both(start_location, end_location) ==
    start_location = None /\ end_location = None

\* if not start_location or not end_location (line 209)
location_missing(start_location, end_location) ==
    start_location = None \/ end_location = None

Ties == [{"distance", "co2_per_person", "total_co2"} -> BOOLEAN]

\* total_co2 / 1 is the float total_co2 itself, so round() decides both alike.
person_tie(num_travelers, tie) ==
    IF num_travelers = 1 THEN tie["total_co2"] ELSE tie["co2_per_person"]

\* The loop body with co2_per_km read from the wrong table.
ComparisonRow_wrong_table(transport, direct_distance, num_travelers, tie) ==
    LET distance == direct_distance * distance_factors[transport]
        co2_per_km == distance_factors[transport]
        total_co2 == distance * co2_per_km
    IN  [Transportmittel |-> transport,
         Distanz |-> PyRound(distance, 10, tie["distance"]),
         CO2_pro_Person |-> PyRound(total_co2, 1000 * num_travelers,
                                    person_tie(num_travelers, tie)),
         Gesamt_CO2 |-> PyRound(total_co2, 1000, tie["total_co2"])]

\* The loop body with the division by num_travelers left out.
ComparisonRow_undivided(transport, direct_distance, num_travelers, tie) ==
    LET distance == direct_distance * distance_factors[transport]
        co2_per_km == emission_factors[transport]
        total_co2 == distance * co2_per_km
    IN  [Transportmittel |-> transport,
         Distanz |-> PyRound(distance, 10, tie["distance"]),
         CO2_pro_Person |-> PyRound(total_co2, 1000, tie["co2_per_person"]),
         Gesamt_CO2 |-> PyRound(total_co2, 1000, tie["total_co2"])]

\* The loop body with the distance truncated to two decimals instead of rounded.
ComparisonRow_truncated(transport, direct_distance, num_travelers, tie) ==
    LET distance == direct_distance * distance_factors[transport]
        co2_per_km == emission_factors[transport]
        total_co2 == distance * co2_per_km
    IN  [Transportmittel |-> transport,
         Distanz |-> distance \div 10,
         CO2_pro_Person |-> PyRound(total_co2, 1000 * num_travelers,
                                    person_tie(num_travelers, tie)),
         Gesamt_CO2 |-> PyRound(total_co2, 1000, tie["total_co2"])]

\* One pass of the loop body (lines 233-247): the row of one transport, every
\* value in hundredths.  Precondition: transport is a key of both tables and
\* num_travelers # 0.
ComparisonRow(transport, direct_distance, num_travelers, tie) ==
    LET distance == direct_distance * distance_factors[transport]   \* 1/1000 km
        co2_per_km == emission_factors[transport]                   \* 1/100 kg per km
        total_co2 == distance * co2_per_km                          \* 1/100000 kg
    IN  [Transportmittel |-> transport,
         Distanz |-> PyRound(distance, 10, tie["distance"]),
         CO2_pro_Person |-> PyRound(total_co2, 1000 * num_travelers,
                                    person_tie(num_travelers, tie)),
         Gesamt_CO2 |-> PyRound(total_co2, 1000, tie["total_co2"])]

\* The rows the loop body can produce for one transport.
Rows(transport, direct_distance, num_travelers) ==
    {ComparisonRow(transport, direct_distance, num_travelers, tie) : tie \in Ties}

\* Rows, tabulated once for the values the sessions can pass.
RowTable ==
    [transport \in DOMAIN distance_factors, direct_distance \in Distances,
     num_travelers \in (-1) .. MaxTravelers |->
        IF num_travelers = 0 THEN {}
        ELSE Rows(transport, direct_distance, num_travelers)]

\* The loop inserting each row at the front.
RECURSIVE Frames_prepend(_, _, _)
Frames_prepend(transports, direct_distance, num_travelers) ==
    IF transports = <<>> THEN {<<>>}
    ELSE LET n == Len(transports)
         IN  {<<row>> \o df :
                 df \in Frames_prepend(SubSeq(transports, 1, n - 1), direct_distance,
                                       num_travelers),
                 row \in RowTable[transports[n], direct_distance, num_travelers]}

\* results after the loop (lines 230-247): one row per element of transports,
\* appended in order.
RECURSIVE Frames(_, _, _)
Frames(transports, direct_distance, num_travelers) ==
    IF transports = <<>> THEN {<<>>}
    ELSE LET n == Len(transports)
         IN  {Append(df, row) :
                 df \in Frames(SubSeq(transports, 1, n - 1), direct_distance, num_travelers),
                 row \in RowTable[transports[n], direct_distance, num_travelers]}

\* The exception the loop raises, or None: the first failing pass decides.
RECURSIVE LoopException(_, _)
LoopException(transports, num_travelers) ==
    IF transports = <<>> THEN "no exception"
    ELSE IF Head(transports) \notin DOMAIN distance_factors THEN "KeyError"
    ELSE IF Head(transports) \notin DOMAIN emission_factors THEN "KeyError"
    ELSE IF num_travelers = 0 THEN "ZeroDivisionError"
    ELSE LoopException(Tail(transports), num_travelers)

geocode_call(endpoint, query, answer) ==
    [endpoint |-> endpoint, query |-> query, answer |-> answer]

\* A handler that lets the exception escape.
except_handler_reraises(e, calls) ==
    [geocode_calls |-> calls,
     messages |-> <<>>,
     result |-> None,
     uncaught |-> TRUE]

\* A handler that returns None without st.error.
except_handler_silent(e, calls) ==
    [geocode_calls |-> calls,
     messages |-> <<>>,
     result |-> None,
     uncaught |-> FALSE]

\* except Exception as e (lines 252-255): st.error and return None.
except_handler(e, calls) ==
    [geocode_calls |-> calls,
     messages |-> <<error_box(failure_text, e)>>,
     result |-> None,
     uncaught |-> FALSE]

\* The outcomes of one call, given the geocoder's answers.
calculate_co2_footprint(start, end, transports, num_travelers, start_location, end_location) ==
    LET first == <<geocode_call("start", start, start_location)>>
        both == Append(first, geocode_call("end", end, end_location))
    IN
    IF start_location = Raised
    THEN {except_handler("GeocoderServiceError", first)}
    ELSE IF end_location = Raised
    THEN {except_handler("GeocoderServiceError", both)}
    ELSE IF location_missing(start_location, end_location)
    THEN {[geocode_calls |-> both,
           messages |-> <<error_box(not_found_text, "no exception")>>,
           result |-> None,
           uncaught |-> FALSE]}
    ELSE IF start_location = None \/ end_location = None
    THEN \* None.latitude (lines 214-215)
         {except_handler("AttributeError", both)}
    ELSE IF LoopException(transports, num_travelers) # "no exception"
    THEN {except_handler(LoopException(transports, num_travelers), both)}
    ELSE UNION
         {{[geocode_calls |-> both,
            messages |-> <<>>,
            result |-> [df |-> df,
                        direct_distance |-> direct_distance,
                        start_coords |-> coords(start_location),
                        end_coords |-> coords(end_location)],
            uncaught |-> FALSE] :
               df \in Frames(transports, direct_distance, num_travelers)} :
           direct_distance \in geodesic(coords(start_location), coords(end_location))}

(***************************************************************************)
(* train_co2_model (lines 28-98): the part that decides the column list.   *)
(***************************************************************************)
vehicle_type_choices == <<"Kleinwagen", "Mittelklasse", "SUV", "Luxusklasse">>
season_choices == <<"Fruehling", "Sommer", "Herbst", "Winter">>

\* Python's order of the category names (pd.get_dummies sorts the categories).
alphabetical ==
    <<"Fruehling", "Herbst", "Kleinwagen", "Luxusklasse", "Mittelklasse", "SUV",
      "Sommer", "Winter">>

column(prefix, name) == [prefix |-> prefix, name |-> name]

\* pd.get_dummies(values, prefix=prefix).columns: one column per category
\* that occurs in values, sorted.  values is the set of the categories that
\* occur in the n_samples draws.
get_dummies(values, prefix) ==
    LET seen(c) == c \in values
        names == SelectSeq(alphabetical, seen)
    IN  [i \in 1..Len(names) |-> column(prefix, names[i])]

numeric_columns ==
    <<column("", "distance"), column("", "vehicle_age"), column("", "traffic_level")>>

\* list(X.columns) of pd.concat([DataFrame{distance, vehicle_age, traffic_level},
\* vehicle_type_encoded, season_encoded], axis=1), for the drawn categories.
X_columns(vehicle_types, seasons) ==
    numeric_columns \o get_dummies(vehicle_types, "vehicle_type_")
                    \o get_dummies(seasons, "season_")

\* RandomForestRegressor(n_estimators=100, random_state=42) after fit (lines
\* 87-91): its parameters and the columns of the frame it was fitted on.
RandomForestRegressor(columns) ==
    [n_estimators |-> 100, random_state |-> 42, feature_names_in |-> columns]

\* The function's body, given its np.random.choice draws: model, list(X.columns).
train_co2_model(vehicle_types, seasons) ==
    [cached |-> TRUE,
     model |-> RandomForestRegressor(X_columns(vehicle_types, seasons)),
     columns |-> X_columns(vehicle_types, seasons)]

\* What np.random.choice can draw (lines 39, 42): any non-empty set of the
\* categories can be the set that occurs.
Draws(choices) == SUBSET Range(choices) \ {{}}

AllTrainingRuns ==
    {train_co2_model(vehicle_types, seasons) :
        vehicle_types \in Draws(vehicle_type_choices),
        seasons \in Draws(season_choices)}

\* The run of the program: np.random.seed(42) (line 31) fixes the n_samples =
\* 1000 draws, and each of the four values occurs in either of them.
TrainingRuns ==
    {train_co2_model(Range(vehicle_type_choices), Range(season_choices))}

\* A cache that never holds an entry.
cache_miss_always(cached) == TRUE

\* @st.cache_data (line 28), no ttl, no max_entries: a call misses only while
\* nothing is cached.
cache_miss(cached) == cached = NoCache

\* @st.cache_data: the body runs only on a miss; what a call of the decorated
\* function can return.
cache_data(cached) == IF cache_miss(cached) THEN TrainingRuns ELSE {cached}

\* model, feature_columns = train_co2_model()   (line 135)
CallTrain ==
    /\ cache' \in cache_data(cache)
    /\ trainings' = trainings + (IF cache_miss(cache) THEN 1 ELSE 0)

(***************************************************************************)
(* predict_co2_with_ml (lines 101-132).  A DataFrame of one row is the     *)
(* sequence of its columns, each with its value.                           *)
(***************************************************************************)
frame_columns(frame) == {frame[i].col : i \in DOMAIN frame}

\* frame[col] = val: overwrite in place, or append a new column.
set_column(frame, col, val) ==
    IF col \in frame_columns(frame)
    THEN [i \in DOMAIN frame |->
            IF frame[i].col = col THEN [col |-> col, val |-> val] ELSE frame[i]]
    ELSE Append(frame, [col |-> col, val |-> val])

get_column(frame, col) ==
    LET i == CHOOSE j \in DOMAIN frame : frame[j].col = col IN frame[i].val

\* The loop comparing the column with the bare category name.
RECURSIVE one_hot_bare_name(_, _, _, _)
one_hot_bare_name(frame, columns, prefix, category) ==
    IF columns = <<>> THEN frame
    ELSE LET col == Head(columns)
             next == IF col.prefix = prefix
                     THEN set_column(frame, col,
                                     IF col = column("", category) THEN 1 ELSE 0)
                     ELSE frame
         IN  one_hot_bare_name(next, Tail(columns), prefix, category)

\* for col in columns: if col.startswith(prefix): input_data[col] = 1 if col
\* == f'{prefix}{category}' else 0   (lines 110-113 and 116-119)
RECURSIVE one_hot(_, _, _, _)
one_hot(frame, columns, prefix, category) ==
    IF columns = <<>> THEN frame
    ELSE LET col == Head(columns)
             next == IF col.prefix = prefix
                     THEN set_column(frame, col,
                                     IF col = column(prefix, category) THEN 1 ELSE 0)
                     ELSE frame
         IN  one_hot(next, Tail(columns), prefix, category)

\* The loop filling with 1.
RECURSIVE fill_missing_ones(_, _)
fill_missing_ones(frame, columns) ==
    IF columns = <<>> THEN frame
    ELSE LET col == Head(columns)
             next == IF col \notin frame_columns(frame)
                     THEN set_column(frame, col, 1)
                     ELSE frame
         IN  fill_missing_ones(next, Tail(columns))

\* for col in columns: if col not in input_data.columns: input_data[col] = 0
\* (lines 122-124)
RECURSIVE fill_missing(_, _)
fill_missing(frame, columns) ==
    IF columns = <<>> THEN frame
    ELSE LET col == Head(columns)
             next == IF col \notin frame_columns(frame)
                     THEN set_column(frame, col, 0)
                     ELSE frame
         IN  fill_missing(next, Tail(columns))

\* input_data[columns] (line 127)
select_columns(frame, columns) ==
    [i \in 1..Len(columns) |-> [col |-> columns[i], val |-> get_column(frame, columns[i])]]

\* input_data after the two one-hot loops (lines 103-119).
assemble(distance, age, type, season_name, traffic, columns) ==
    LET input_data0 == <<[col |-> column("", "distance"), val |-> distance],
                         [col |-> column("", "vehicle_age"), val |-> age],
                         [col |-> column("", "traffic_level"), val |-> traffic]>>
        input_data1 == one_hot(input_data0, columns, "vehicle_type_", type)
    IN  one_hot(input_data1, columns, "season_", season_name)

\* The frame handed to model.predict (line 130).
predict_co2_with_ml(distance, age, type, season_name, traffic, columns) ==
    LET assembled == assemble(distance, age, type, season_name, traffic, columns)
    IN  select_columns(fill_missing(assembled, columns), columns)

(***************************************************************************)
(* The script run (lines 135-458).                                         *)
(***************************************************************************)
\* Defaults of the advanced widgets (lines 168-171); the explored sessions
\* leave them as they are.
vehicle_age == 5
vehicle_type == "Kleinwagen"
season == "Fruehling"
traffic_level == 5

ml_warning ==
    [box |-> "warning",
     text |-> "Die ML-Analyse ist nur fuer Autofahrten verfuegbar.",
     e |-> "no exception"]

\* df[df["Transportmittel"] == "Auto"]["Distanz (km)"].values[0] (line 359)
auto_distance(df) ==
    LET i == CHOOSE j \in DOMAIN df :
                 /\ df[j].Transportmittel = "Auto"
                 /\ \A k \in 1..(j - 1) : df[k].Transportmittel # "Auto"
    IN  df[i].Distanz

\* df[df["Transportmittel"] == "Auto"]["CO2 pro Person (kg)"].values[0] (line 362)
standard_co2(df) ==
    LET i == CHOOSE j \in DOMAIN df :
                 /\ df[j].Transportmittel = "Auto"
                 /\ \A k \in 1..(j - 1) : df[k].Transportmittel # "Auto"
    IN  df[i].CO2_pro_Person

\* model.predict(input_data)[0] (line 130), in 1/100 kg: the forest's answer.
model_predict(model, frame) == {850, 2041}

\* a / b of two numbers, kept exact.
quotient(a, b) == [num |-> a, den |-> b]

\* Lines 355-440 for one answer of the model: the comparison of the two
\* values per person and the ranking of feature_columns by importance.
ml_block(df, ml_co2, num_travelers, trained) ==
    [header |-> "Machine Learning Analyse fuer Autofahrten",
     standard_co2 |-> standard_co2(df),
     ml_co2 |-> ml_co2,
     ml_co2_per_person |-> quotient(ml_co2, num_travelers),
     ranked_features |-> Range(trained.columns)]

\* A run without the button: model, feature_columns = train_co2_model()
\* (line 135), the sidebar, and nothing below line 258.
Rerun ==
    /\ CallTrain
    /\ geocode_calls' = <<>>
    /\ messages' = <<>>
    /\ result' = NotCalled
    /\ uncaught' = FALSE
    /\ ml_args' = None
    /\ input_data' = None
    /\ ml_output' = None
    /\ UNCHANGED training

\* The browser opens the page: a new session with every widget at its default.
PageLoad ==
    /\ start_point' = default_start
    /\ end_point' = default_end
    /\ selected_transports' = default_transports
    /\ travelers' = 1
    /\ use_ml' = FALSE
    /\ widget_note' = "idle"
    /\ Rerun

Loaded == cache # NoCache

SetStart(text) ==
    /\ Loaded
    /\ start_point' = text
    /\ UNCHANGED widget_note
    /\ UNCHANGED <<end_point, selected_transports, travelers, use_ml>>
    /\ Rerun

SetEnd(text) ==
    /\ Loaded
    /\ end_point' = text
    /\ UNCHANGED widget_note
    /\ UNCHANGED <<start_point, selected_transports, travelers, use_ml>>
    /\ Rerun

\* st.multiselect: an option not yet selected is appended.
Select(transport) ==
    /\ Loaded
    /\ transport \notin Range(selected_transports)
    /\ Len(selected_transports) < MaxSel
    /\ selected_transports' = Append(selected_transports, transport)
    /\ UNCHANGED widget_note
    /\ UNCHANGED <<start_point, end_point, travelers, use_ml>>
    /\ Rerun

Deselect(transport) ==
    /\ Loaded
    /\ transport \in Range(selected_transports)
    /\ selected_transports' = SelectSeq(selected_transports, LAMBDA t : t # transport)
    /\ UNCHANGED widget_note
    /\ UNCHANGED <<start_point, end_point, travelers, use_ml>>
    /\ Rerun

\* The user types a number into "Anzahl der Reisenden".
SetTravelers(typed) ==
    /\ Loaded
    /\ travelers' \in number_input(travelers, typed)
    /\ widget_note' = IF typed < min_value THEN "below min_value" ELSE "idle"
    /\ UNCHANGED <<start_point, end_point, selected_transports, use_ml>>
    /\ Rerun

ToggleML ==
    /\ Loaded
    /\ use_ml' = ~use_ml
    /\ UNCHANGED widget_note
    /\ UNCHANGED <<start_point, end_point, selected_transports, travelers>>
    /\ Rerun

\* if calculate_button: (lines 258-458), for one outcome of the call in line 260.
ResultBlock(out) ==
    /\ geocode_calls' = out.geocode_calls
    /\ result' = out.result
    /\ IF out.result = None
       THEN \* if result: is false, nothing more is rendered
            /\ messages' = out.messages
            /\ uncaught' = out.uncaught
            /\ ml_args' = None
            /\ input_data' = None
            /\ ml_output' = None
       ELSE IF out.result.df = <<>>
       THEN \* px.bar(df, x="Transportmittel", ...) on a frame without columns
            \* raises ValueError (lines 274-283); the run ends there
            /\ messages' = out.messages
            /\ uncaught' = TRUE
            /\ ml_args' = None
            /\ input_data' = None
            /\ ml_output' = None
       ELSE IF use_ml /\ "Auto" \in Range(selected_transports)
       THEN /\ messages' = out.messages
            /\ uncaught' = FALSE
            /\ ml_args' = [distance |-> auto_distance(out.result.df),
                           vehicle_age |-> vehicle_age,
                           vehicle_type |-> vehicle_type,
                           season |-> season,
                           traffic_level |-> traffic_level,
                           columns |-> cache'.columns]
            /\ input_data' = predict_co2_with_ml(auto_distance(out.result.df),
                                 vehicle_age, vehicle_type, season, traffic_level,
                                 cache'.columns)
            /\ \E ml_co2 \in model_predict(cache'.model, input_data') :
                  ml_output' = ml_block(out.result.df, ml_co2, travelers, cache')
       ELSE /\ messages' = IF use_ml THEN Append(out.messages, ml_warning)
                           ELSE out.messages
            /\ uncaught' = FALSE
            /\ ml_args' = None
            /\ input_data' = None
            /\ ml_output' = None

\* The user presses "CO2-Fussabdruck berechnen".
Calculate ==
    /\ Loaded
    /\ CallTrain
    /\ UNCHANGED <<widget_note, training>>
    /\ UNCHANGED <<start_point, end_point, selected_transports, travelers, use_ml>>
    /\ \E start_location \in geocode(start_point), end_location \in geocode(end_point) :
          \E out \in calculate_co2_footprint(start_point, end_point, selected_transports,
                         travelers, start_location, end_location) :
              ResultBlock(out)

Init ==
    /\ cache = NoCache
    /\ trainings = 0
    /\ start_point = default_start
    /\ end_point = default_end
    /\ selected_transports = default_transports
    /\ travelers = 1
    /\ use_ml = FALSE
    /\ widget_note = "idle"
    /\ geocode_calls = <<>>
    /\ messages = <<>>
    /\ result = NotCalled
    /\ uncaught = FALSE
    /\ ml_args = None
    /\ input_data = None
    /\ ml_output = None
    /\ training = [pc |-> "seed", draws |-> <<>>]

Next ==
    \/ PageLoad
    \/ \E text \in StartTexts : SetStart(text)
    \/ \E text \in EndTexts : SetEnd(text)
    \/ \E transport \in Range(transport_options) : Select(transport)
    \/ \E transport \in Range(transport_options) : Deselect(transport)
    \/ \E typed \in (-1) .. MaxTravelers : SetTravelers(typed)
    \/ ToggleML
    \/ Calculate

Spec == Init /\ [][Next]_vars

(***************************************************************************)
(* The two functions called directly, once, with arguments no session      *)
(* passes: a transport outside transport_options, a column list that is    *)
(* not one train_co2_model returns.                                        *)
(***************************************************************************)
Modes == Range(transport_options) \cup {"Fahrrad"}

DirectCalculate ==
    /\ result = NotCalled
    /\ \E start \in StartTexts, end \in EndTexts,
          transports \in SeqsNoDup(Modes, MaxSel), num_travelers \in 1 .. MaxTravelers :
          /\ start_point' = start
          /\ end_point' = end
          /\ selected_transports' = transports
          /\ travelers' = num_travelers
          /\ \E start_location \in geocode(start), end_location \in geocode(end) :
                \E out \in calculate_co2_footprint(start, end, transports, num_travelers,
                               start_location, end_location) :
                    /\ geocode_calls' = out.geocode_calls
                    /\ messages' = out.messages
                    /\ result' = out.result
                    /\ uncaught' = out.uncaught
    /\ UNCHANGED <<cache, trainings, use_ml, widget_note, ml_args, input_data, ml_output,
                   training>>

SpecCall == Init /\ [][DirectCalculate]_vars

TrainingColumns == {run.columns : run \in AllTrainingRuns}

\* A training-time list with a column of another schema appended, or without
\* its first column.
OtherColumns ==
    {Append(columns, column("", "fuel_type")) : columns \in TrainingColumns}
        \cup {Tail(columns) : columns \in TrainingColumns}

PredictArguments ==
    [distance : {explored_distances[1], explored_distances[MaxDirect]},
     vehicle_age : {0, 20},
     vehicle_type : Range(vehicle_type_choices),
     season : Range(season_choices),
     traffic_level : {1, 10},
     columns : TrainingColumns \cup OtherColumns]

DirectPredict ==
    /\ ml_args = None
    /\ \E args \in PredictArguments :
          /\ ml_args' = args
          /\ input_data' = predict_co2_with_ml(args.distance, args.vehicle_age,
                               args.vehicle_type, args.season, args.traffic_level,
                               args.columns)
    /\ UNCHANGED <<cache, trainings, start_point, end_point, selected_transports, travelers, use_ml,
                   widget_note, geocode_calls, messages, result, uncaught, ml_output,
                   training>>

SpecPredict == Init /\ [][DirectPredict]_vars

(***************************************************************************)
(* The body of train_co2_model (lines 31-71), statement by statement, for  *)
(* one of its n_samples rows.  Units: distances in 10 km, 0.17 and the age *)
(* factor in 1/100, the type factor in 1/5, the season and traffic factors *)
(* in 1/20; co2_emissions therefore in 1/2000000 kg.                       *)
(***************************************************************************)
\* np.random.uniform(10, 1000): 10 km, 500 km, 990 km.
uniform == {1, 50, 99}

\* np.random.randint(low, high): high is exclusive.
randint(low, high) == low .. (high - 1)

\* np.random.choice(choices)
choice(choices) == Range(choices)

\* np.random.normal(0, 5): -10 kg, 0 kg, 5 kg.
normal == {-20000000, 0, 10000000}

\* Lines 53-57 with the factors of SUV and Luxusklasse exchanged.
type_factor_exchanged(vehicle_types) ==
    [Kleinwagen |-> 4, Mittelklasse |-> 5, SUV |-> 8, Luxusklasse |-> 7][vehicle_types]

\* type_factor (lines 53-57): 0.8, 1.0, 1.4, 1.6.
type_factor(vehicle_types) ==
    [Kleinwagen |-> 4, Mittelklasse |-> 5, SUV |-> 7, Luxusklasse |-> 8][vehicle_types]

\* season_factor (lines 59-63): 1.0, 0.95, 1.05, 1.15.
season_factor(seasons) ==
    [Fruehling |-> 20, Sommer |-> 19, Herbst |-> 21, Winter |-> 23][seasons]

\* base_emissions = distances * 0.17   (line 48)
base_emissions(distances) == distances * 17

\* age_factor = 1 + vehicle_ages * 0.01   (line 51)
age_factor(vehicle_ages) == 100 + vehicle_ages

\* traffic_factor = 1 + (traffic_levels - 1) * 0.05   (line 65)
traffic_factor(traffic_levels) == 20 + (traffic_levels - 1)

\* The statement at pc draws `name` from `values` and goes on to `next`.
Draw(pc, name, values, next) ==
    /\ training.pc = pc
    /\ \E value \in values :
          training' = [field \in DOMAIN training \cup {name} |->
                          IF field = name THEN value
                          ELSE IF field = "pc" THEN next
                          ELSE IF field = "draws" THEN Append(training.draws, name)
                          ELSE training[field]]

session_vars ==
    <<cache, trainings, start_point, end_point, selected_transports, travelers, use_ml,
      widget_note, geocode_calls, messages, result, uncaught, ml_args, input_data,
      ml_output>>

\* np.random.seed(42)   (line 31)
Seed ==
    /\ training.pc = "seed"
    /\ training' = [pc |-> "distances", draws |-> <<>>]
    /\ UNCHANGED session_vars

\* line 35
DrawDistances ==
    /\ Draw("distances", "distances", uniform, "vehicle_ages")
    /\ UNCHANGED session_vars

\* line 36
DrawVehicleAges ==
    /\ Draw("vehicle_ages", "vehicle_ages", randint(0, 21), "vehicle_types")
    /\ UNCHANGED session_vars

\* line 39
DrawVehicleTypes ==
    /\ Draw("vehicle_types", "vehicle_types", choice(vehicle_type_choices), "seasons")
    /\ UNCHANGED session_vars

\* line 42
DrawSeasons ==
    /\ Draw("seasons", "seasons", choice(season_choices), "traffic_levels")
    /\ UNCHANGED session_vars

\* line 45
DrawTrafficLevels ==
    /\ Draw("traffic_levels", "traffic_levels", randint(1, 11), "co2_emissions")
    /\ UNCHANGED session_vars

\* co2_emissions = base_emissions * age_factor * type_factor * season_factor *
\* traffic_factor   (lines 48-68)
ComputeEmissions ==
    /\ training.pc = "co2_emissions"
    /\ training' = [field \in DOMAIN training \cup {"co2_emissions"} |->
                      IF field = "co2_emissions"
                      THEN base_emissions(training.distances)
                               * age_factor(training.vehicle_ages)
                               * type_factor(training.vehicle_types)
                               * season_factor(training.seasons)
                               * traffic_factor(training.traffic_levels)
                      ELSE IF field = "pc" THEN "noise"
                      ELSE training[field]]
    /\ UNCHANGED session_vars

\* co2_emissions += np.random.normal(0, 5, n_samples)   (line 71)
AddNoise ==
    /\ training.pc = "noise"
    /\ \E noise \in normal :
          training' = [field \in DOMAIN training \cup {"noise"} |->
                          IF field = "noise" THEN noise
                          ELSE IF field = "co2_emissions"
                          THEN training.co2_emissions + noise
                          ELSE IF field = "pc" THEN "features"
                          ELSE IF field = "draws" THEN Append(training.draws, "noise")
                          ELSE training[field]]
    /\ UNCHANGED session_vars

TrainNext ==
    \/ Seed
    \/ DrawDistances
    \/ DrawVehicleAges
    \/ DrawVehicleTypes
    \/ DrawSeasons
    \/ DrawTrafficLevels
    \/ ComputeEmissions
    \/ AddNoise

SpecTrain == Init /\ [][TrainNext]_vars

(***************************************************************************)
(* Properties.                                                             *)
(***************************************************************************)
\* calculate_co2_footprint returned rows (a frame, possibly empty).
Succeeded == result # NotCalled /\ result # None

RowsOf == IF Succeeded THEN Range(result.df) ELSE {}

\* C1 as stated: in every row, total_co2_kg == distance_km * emission_factor
\* of the row's mode, on the values the row reports (both sides in 1/10000 kg).
C1_TotalIsRowDistanceTimesFactor ==
    travelers >= 1 =>
        \A row \in RowsOf :
            100 * row.Gesamt_CO2 = row.Distanz * emission_factors[row.Transportmittel]

\* C1 amended: the reported total is direct_distance * distance_factor *
\* emission_factor rounded to two decimals; it differs from reported distance
\* times emission_factor by at most 0.005 * (1 + emission_factor) kg.
C1_TotalIsRoundedProduct ==
    travelers >= 1 =>
        \A row \in RowsOf :
            LET t == row.Transportmittel
                exact == result.direct_distance * distance_factors[t] * emission_factors[t]
            IN  /\ row.Gesamt_CO2 \in {PyRound(exact, 1000, up) : up \in BOOLEAN}
                /\ Abs(200 * row.Gesamt_CO2 - 2 * row.Distanz * emission_factors[t])
                       <= 100 + emission_factors[t]

\* C1 witness: a row whose reported total is not its reported distance times
\* the factor (1.25 km by train: 1.62 or 1.63 km, 0.06 or 0.07 kg).
C1_Witness ==
    \E row \in RowsOf :
        /\ row.Transportmittel = "Zug"
        /\ result.direct_distance = 125
        /\ 100 * row.Gesamt_CO2 # row.Distanz * emission_factors["Zug"]

\* C2 as stated: in every row, co2_per_person_kg == total_co2_kg / num_travelers
\* on the values the row reports.
C2_PerPersonIsRowTotalDivided ==
    travelers >= 1 =>
        \A row \in RowsOf : travelers * row.CO2_pro_Person = row.Gesamt_CO2

\* C2 amended: the reported per-person value is the unrounded total divided by
\* num_travelers, rounded to two decimals; it differs from the reported total
\* divided by num_travelers by at most 0.005 * (1 + 1/num_travelers) kg.
C2_PerPersonIsRoundedQuotient ==
    travelers >= 1 =>
        \A row \in RowsOf :
            LET t == row.Transportmittel
                exact == result.direct_distance * distance_factors[t] * emission_factors[t]
            IN  /\ row.CO2_pro_Person \in
                       {PyRound(exact, 1000 * travelers, up) : up \in BOOLEAN}
                /\ Abs(2 * travelers * row.CO2_pro_Person - 2 * row.Gesamt_CO2)
                       <= travelers + 1

\* C2 witness: two travelers and a row whose per-person value times two is
\* not its total.
C2_Witness ==
    /\ travelers = 2
    /\ \E row \in RowsOf : 2 * row.CO2_pro_Person # row.Gesamt_CO2

\* C3 as stated: in every row, distance_km == direct_distance_km *
\* distance_factor of the row's mode (both sides in 1/1000 km).
C3_DistanceIsDirectTimesFactor ==
    \A row \in RowsOf :
        10 * row.Distanz = result.direct_distance * distance_factors[row.Transportmittel]

\* C3 amended: the reported distance is direct_distance * distance_factor
\* rounded to two decimals (at most 0.005 km off); the Flugzeug row reports
\* the direct distance itself.
C3_DistanceIsRoundedProduct ==
    \A row \in RowsOf :
        LET exact == result.direct_distance * distance_factors[row.Transportmittel]
        IN  /\ row.Distanz \in {PyRound(exact, 10, up) : up \in BOOLEAN}
            /\ Abs(10 * row.Distanz - exact) <= 5
            /\ row.Transportmittel = "Flugzeug" => row.Distanz = result.direct_distance

\* C3 witness: a car row over a direct distance of 0.01 km (0.012 km is
\* reported as 0.01 km) beside a Flugzeug row.
C3_Witness ==
    /\ Succeeded
    /\ result.direct_distance = 1
    /\ \E row \in RowsOf : row.Transportmittel = "Auto" /\ row.Distanz = 1
    /\ \E row \in RowsOf : row.Transportmittel = "Flugzeug"

\* The geocoder answered both calls and did not know at least one place.
NotFoundCase ==
    /\ Len(geocode_calls) = 2
    /\ \A i \in DOMAIN geocode_calls : geocode_calls[i].answer # Raised
    /\ \E i \in DOMAIN geocode_calls : geocode_calls[i].answer = None

\* C4: when the geocoder resolves neither or only one of the two places, the
\* run shows the not-found error and nothing else: no rows, no direct
\* distance, no coordinates, no ML call.
C4_NotFoundHasNoResult ==
    NotFoundCase =>
        /\ result = None
        /\ messages = <<error_box(not_found_text, "no exception")>>
        /\ uncaught = FALSE
        /\ ml_args = None
        /\ input_data = None

\* C4 witness: the start is resolved, the end is not, modes are selected and
\* the advanced mode is on.
C4_Witness ==
    /\ NotFoundCase
    /\ geocode_calls[1].answer = Location(start_point)
    /\ geocode_calls[2].answer = None
    /\ "Auto" \in Range(selected_transports)
    /\ use_ml

GeocoderRaised == \E i \in DOMAIN geocode_calls : geocode_calls[i].answer = Raised

\* C6: an exception of the geocoder is caught in calculate_co2_footprint: the
\* run shows the generic failure and has no result, no exception escapes, each
\* endpoint is geocoded at most once and nothing is geocoded after the
\* failure; and a calculation that succeeds right after a failed one returns
\* what calculate_co2_footprint returns for its inputs.
C6_GeocoderFailureIsCaught ==
    /\ [](GeocoderRaised =>
            /\ result = None
            /\ messages = <<error_box(failure_text, "GeocoderServiceError")>>
            /\ uncaught = FALSE
            /\ ml_args = None)
    /\ [](/\ Len(geocode_calls) <= 2
          /\ \A i, j \in DOMAIN geocode_calls :
                i # j => geocode_calls[i].endpoint # geocode_calls[j].endpoint
          /\ \A i \in DOMAIN geocode_calls :
                geocode_calls[i].answer = Raised => i = Len(geocode_calls))
    /\ [][(GeocoderRaised /\ Succeeded') =>
            result' \in {out.result :
                            out \in calculate_co2_footprint(start_point', end_point',
                                        selected_transports', travelers',
                                        Location(start_point'), Location(end_point'))}]_vars

\* C6 witness: the start was resolved and the geocoder raised on the end.
C6_Witness ==
    /\ Len(geocode_calls) = 2
    /\ geocode_calls[1].answer = Location(start_point)
    /\ geocode_calls[2].answer = Raised

\* A direct call got past the geocoder with a transport that is in no table.
UnknownModeCase ==
    /\ Len(geocode_calls) = 2
    /\ \A i \in DOMAIN geocode_calls :
          geocode_calls[i].answer \notin {Raised, None}
    /\ \E i \in DOMAIN selected_transports :
          selected_transports[i] \notin DOMAIN distance_factors

\* What a geocoder failure gets: the generic error box, no result, no
\* exception escaping.
HandledAsFailure ==
    /\ result = None
    /\ uncaught = FALSE
    /\ Len(messages) = 1
    /\ messages[1].box = "error"
    /\ messages[1].text = failure_text

\* C7 as stated: a transport outside the five reaching the tables is fatal, not
\* handled the way a geocoder failure is.
C7_UnknownModeIsFatal == UnknownModeCase => ~HandledAsFailure

\* C7 amended: the KeyError of the table lookup is caught by the same handler
\* as a geocoder failure: generic error box naming the KeyError, no result, no
\* exception escaping.
C7_UnknownModeIsCaught ==
    UnknownModeCase =>
        /\ HandledAsFailure
        /\ messages[1].e = "KeyError"

\* C7 witness: the unknown transport comes after a known one.
C7_Witness ==
    /\ UnknownModeCase
    /\ selected_transports = <<"Auto", "Fahrrad">>

\* C10: a successful calculation returns one row per selected transport, in the
\* order of selection, labelled with the transport, and each row is one the
\* loop body produces for that transport alone; no transport, no rows.
C10_OneRowPerSelectedMode ==
    Succeeded =>
        /\ Len(result.df) = Len(selected_transports)
        /\ \A i \in DOMAIN result.df :
              /\ result.df[i].Transportmittel = selected_transports[i]
              /\ result.df[i] \in Rows(selected_transports[i], result.direct_distance,
                                      travelers)

\* C10 witness: two transports selected against the order of the options.
C10_Witness ==
    /\ Succeeded
    /\ selected_transports = <<"Zug", "Auto">>
    /\ Len(result.df) = 2

\* predict_co2_with_ml was called and model.predict received a frame.
Predicted == ml_args # None /\ input_data # None

ColumnsOf(frame) == [i \in DOMAIN frame |-> frame[i].col]

\* A column of the list that the vector assembled in lines 103-119 lacks: not
\* one of the three numeric columns and not a vehicle_type_ or season_ column.
Lacking(col) ==
    /\ col \notin {column("", "distance"), column("", "vehicle_age"),
                   column("", "traffic_level")}
    /\ col.prefix \notin {"vehicle_type_", "season_"}

\* The assembled vector has a column the list lacks.
Surplus(columns) ==
    \E name \in {"distance", "vehicle_age", "traffic_level"} :
        column("", name) \notin Range(columns)

\* C8 as stated: when the columns of the assembled vector are not the columns
\* of the given list, predict_co2_with_ml hands no frame to the model.
C8_MismatchFailsLoudly ==
    (/\ ml_args # None
     /\ \/ Surplus(ml_args.columns)
        \/ \E i \in DOMAIN ml_args.columns : Lacking(ml_args.columns[i]))
        => input_data = None

\* C8 amended: predict_co2_with_ml makes no contract check; for any column
\* list it hands the model a frame with exactly the columns of the list in the
\* order of the list, a column the assembled vector lacks carries 0, a column
\* the list lacks is dropped, and nothing is raised.
C8_MismatchIsFilledSilently ==
    ml_args # None =>
        /\ input_data # None
        /\ uncaught = FALSE
        /\ ColumnsOf(input_data) = ml_args.columns
        /\ \A i \in DOMAIN input_data :
              Lacking(input_data[i].col) => input_data[i].val = 0

\* C8 witness: a list with a fuel_type column; the frame carries it with 0.
C8_Witness ==
    /\ Predicted
    /\ \E i \in DOMAIN input_data :
          /\ input_data[i].col = column("", "fuel_type")
          /\ Lacking(input_data[i].col)
          /\ input_data[i].val = 0

\* C9: for every column list a training run returns, the frame handed to the
\* model has exactly these columns in this order; distance, vehicle_age and
\* traffic_level carry the inputs; a vehicle_type_ or season_ column is 1 iff
\* it is the column of the given vehicle_type or season, else 0; and a
\* vehicle_type or season without a column leaves its group all zero.
C9_FeatureVectorMatchesTraining ==
    (Predicted /\ ml_args.columns \in TrainingColumns) =>
        /\ ColumnsOf(input_data) = ml_args.columns
        /\ \A i \in DOMAIN input_data :
              LET col == input_data[i].col
                  val == input_data[i].val
              IN  /\ col = column("", "distance") => val = ml_args.distance
                  /\ col = column("", "vehicle_age") => val = ml_args.vehicle_age
                  /\ col = column("", "traffic_level") => val = ml_args.traffic_level
                  /\ col.prefix = "vehicle_type_" =>
                        val = IF col.name = ml_args.vehicle_type THEN 1 ELSE 0
                  /\ col.prefix = "season_" =>
                        val = IF col.name = ml_args.season THEN 1 ELSE 0
        /\ column("vehicle_type_", ml_args.vehicle_type) \notin Range(ml_args.columns) =>
              \A i \in DOMAIN input_data :
                  input_data[i].col.prefix = "vehicle_type_" => input_data[i].val = 0
        /\ column("season_", ml_args.season) \notin Range(ml_args.columns) =>
              \A i \in DOMAIN input_data :
                  input_data[i].col.prefix = "season_" => input_data[i].val = 0

\* C9 witness: a training run that drew no SUV but winter, and a winter trip
\* in an SUV: the vehicle_type_ columns exist and are all 0, season_Winter is 1.
C9_Witness ==
    /\ Predicted
    /\ ml_args.columns \in TrainingColumns
    /\ ml_args.vehicle_type = "SUV"
    /\ ml_args.season = "Winter"
    /\ column("vehicle_type_", "SUV") \notin Range(ml_args.columns)
    /\ \E i \in DOMAIN input_data :
          input_data[i].col.prefix = "vehicle_type_" /\ input_data[i].val = 0
    /\ \E i \in DOMAIN input_data :
          input_data[i].col = column("season_", "Winter") /\ input_data[i].val = 1

\* C11: in one process the body of train_co2_model runs at most once, on the
\* first call; every later script run, calculation and prediction gets the
\* cached model and column list and leaves them as they are, and a prediction
\* is made with the recorded column list.
C11_TrainedOnceNeverMutated ==
    /\ [](trainings <= 1)
    /\ [](Loaded <=> trainings = 1)
    /\ [][Loaded => (cache' = cache /\ trainings' = trainings)]_vars
    /\ [](ml_args # None =>
            /\ ml_args.columns = cache.columns
            /\ cache.model.feature_names_in = cache.columns)

\* C11 witness: a prediction made in a run after the one that trained, with
\* the cached entry being what the training returned.
C11_Witness ==
    /\ trainings = 1
    /\ cache \in TrainingRuns
    /\ Succeeded
    /\ ml_args # None
    /\ input_data # None

CarSelected == "Auto" \in Range(selected_transports)

\* C12: the machine-learning block (comparison and feature ranking) is shown
\* exactly when the calculation returned a result, the advanced mode is on and
\* Auto is selected; with the advanced mode on and Auto not selected the run
\* shows only the warning and makes no prediction; with the advanced mode off
\* no prediction is made; and the block's value per person is the model's
\* answer for the Auto row's distance divided by the number of travelers.
C12_MLBlockIffAdvancedAndCar ==
    /\ ml_output # None <=> (Succeeded /\ use_ml /\ CarSelected)
    /\ (Succeeded /\ use_ml /\ ~CarSelected) =>
          /\ messages = <<ml_warning>>
          /\ uncaught = FALSE
          /\ ml_args = None
    /\ ~use_ml => ml_args = None
    /\ ml_output # None =>
          /\ ml_args # None
          /\ \E i \in DOMAIN result.df :
                /\ result.df[i].Transportmittel = "Auto"
                /\ ml_args.distance = result.df[i].Distanz
          /\ ml_output.ml_co2 \in model_predict(cache.model, input_data)
          /\ ml_output.ml_co2_per_person.num * travelers
                = ml_output.ml_co2 * ml_output.ml_co2_per_person.den
          /\ ml_output.ranked_features = Range(cache.columns)

\* The trip sample is complete: every draw is made and the noise is added.
SampleDone == training.pc = "features"

\* C13: a trip sample has vehicle_age in [0,20], traffic_level in [1,10] and
\* distance in [10,1000] km; its target is distance * 0.17 * (1 + 0.01 *
\* vehicle_age) * type_factor * season_factor * (1 + 0.05 * (traffic_level -
\* 1)) + noise, with type_factor 0.8, 1.0, 1.4, 1.6 for Kleinwagen,
\* Mittelklasse, SUV, Luxusklasse and season_factor 1.0, 0.95, 1.05, 1.15 for
\* Fruehling, Sommer, Herbst, Winter, not clamped; the draws are made in the
\* order distance, vehicle_age, vehicle_type, season, traffic_level, noise.
\* (Distance in 10 km, 0.17 and 1 + 0.01 * vehicle_age in 1/100, type_factor
\* in 1/5, season_factor and 1 + 0.05 * (traffic_level - 1) in 1/20, both
\* sides of the target in 1/2000000 kg.)
C13_SampleRangesFormulaAndOrder ==
    SampleDone =>
        LET t == training
            tf == IF t.vehicle_types = "Kleinwagen" THEN 4
                  ELSE IF t.vehicle_types = "Mittelklasse" THEN 5
                  ELSE IF t.vehicle_types = "SUV" THEN 7
                  ELSE 8
            sf == IF t.seasons = "Fruehling" THEN 20
                  ELSE IF t.seasons = "Sommer" THEN 19
                  ELSE IF t.seasons = "Herbst" THEN 21
                  ELSE 23
        IN  /\ t.vehicle_ages \in 0..20
            /\ t.traffic_levels \in 1..10
            /\ t.distances \in 1..100
            /\ t.vehicle_types \in {"Kleinwagen", "Mittelklasse", "SUV", "Luxusklasse"}
            /\ t.seasons \in {"Fruehling", "Sommer", "Herbst", "Winter"}
            /\ t.draws = <<"distances", "vehicle_ages", "vehicle_types", "seasons",
                           "traffic_levels", "noise">>
            /\ t.co2_emissions - t.noise
                  = t.distances * 17 * (100 + t.vehicle_ages) * tf * sf
                        * (20 + (t.traffic_levels - 1))

\* C13 witness: a complete sample whose target the noise pushed below zero.
C13_Witness ==
    /\ SampleDone
    /\ training.noise < 0
    /\ training.co2_emissions < 0
    /\ training.co2_emissions - training.noise > 0
====
